---- MODULE Spec2Model ----
(***************************************************************************)
(* Model of the model-resolution and caching layer of whisper_mlx:         *)
(*   - LightningWhisperMLX.__init__ / transcribe   (lightning.py)          *)
(*   - load_model and ModelHolder.get_model        (load_models.py)        *)
(*                                                                         *)
(* Representation of Python values.                                        *)
(*   str            a string is kept as the sequence of its "/"-separated  *)
(*                  segments (what s.split("/") returns): "tiny" is        *)
(*                  <<"tiny">>, "org/repo" is <<"org", "repo">>, "" is     *)
(*                  <<"">>.  Hence  "/" in s  <=>  Len(s) > 1.             *)
(*   Optional[str]  None is the empty sequence <<>> (no string splits to   *)
(*                  it).                                                   *)
(*   quant, dtype   plain strings; PyNone stands for None.                 *)
(*   Whisper model  a record; the field id is the object identity.         *)
(***************************************************************************)
EXTENDS Integers, Sequences, FiniteSets, TLC

VARIABLES
    self,            \* attributes of the LightningWhisperMLX under construction / last constructed
    init_call,       \* arguments and outcome of the last __init__ call
    cls_model,       \* ModelHolder.model
    cls_model_path,  \* ModelHolder.model_path
    last,            \* arguments and outcome of the last completed get_model call
    next_id,         \* identity given to the next Whisper object built
    pc,              \* per thread: position inside get_model
    frame            \* per thread: arguments and locals of its get_model call

vars == <<self, init_call, cls_model, cls_model_path, last, next_id, pc, frame>>

\* Bound on the number of Whisper objects built in one behaviour.
MaxLoads == 3

PyNone == "None"
NonePath == <<>>

Name(s) == <<s>>
Repo(org, repo) == <<org, repo>>

\* "/" in s
ContainsSlash(s) == Len(s) > 1

\* Python truthiness of an Optional[str] quant: None and "" are falsy.
Truthy(q) == q # PyNone /\ q # ""

MODEL_REPOS ==
    (Name("tiny") :> Repo("mlx-community", "whisper-tiny-mlx")) @@
    (Name("tiny.en") :> Repo("mlx-community", "whisper-tiny.en-mlx")) @@
    (Name("base") :> Repo("mlx-community", "whisper-base-mlx")) @@
    (Name("base.en") :> Repo("mlx-community", "whisper-base.en-mlx")) @@
    (Name("small") :> Repo("mlx-community", "whisper-small-mlx")) @@
    (Name("small.en") :> Repo("mlx-community", "whisper-small.en-mlx")) @@
    (Name("medium") :> Repo("mlx-community", "whisper-medium-mlx")) @@
    (Name("medium.en") :> Repo("mlx-community", "whisper-medium.en-mlx")) @@
    (Name("large") :> Repo("mlx-community", "whisper-large-v3-mlx")) @@
    (Name("large-v2") :> Repo("mlx-community", "whisper-large-v2-mlx")) @@
    (Name("large-v3") :> Repo("mlx-community", "whisper-large-v3-mlx")) @@
    (Name("large-v3-turbo") :> Repo("mlx-community", "whisper-large-v3-turbo")) @@
    (Name("turbo") :> Repo("mlx-community", "whisper-turbo")) @@
    (Name("distil-large-v2") :> Repo("mlx-community", "distil-whisper-large-v2")) @@
    (Name("distil-large-v3") :> Repo("mlx-community", "distil-whisper-large-v3"))

\* Mutant of QUANT_REPOS: the registry without quantized variants of "small".
QUANT_REPOS_NoSmall ==
    (Name("tiny") :> (("4bit" :> Repo("mlx-community", "whisper-tiny-mlx-4bit")) @@
                      ("8bit" :> Repo("mlx-community", "whisper-tiny-mlx-8bit")))) @@
    (Name("medium") :> (("4bit" :> Repo("mlx-community", "whisper-medium-mlx-4bit")) @@
                        ("8bit" :> Repo("mlx-community", "whisper-medium-mlx-8bit")))) @@
    (Name("large-v3") :> (("4bit" :> Repo("mlx-community", "whisper-large-v3-mlx-4bit")) @@
                          ("8bit" :> Repo("mlx-community", "whisper-large-v3-mlx-8bit")))) @@
    (Name("distil-large-v3") :> (("4bit" :> Repo("mlx-community", "distil-whisper-large-v3-4bit")) @@
                                 ("8bit" :> Repo("mlx-community", "distil-whisper-large-v3-8bit"))))

QUANT_REPOS ==
    (Name("tiny") :> (("4bit" :> Repo("mlx-community", "whisper-tiny-mlx-4bit")) @@
                      ("8bit" :> Repo("mlx-community", "whisper-tiny-mlx-8bit")))) @@
    (Name("small") :> (("4bit" :> Repo("mlx-community", "whisper-small-mlx-4bit")) @@
                       ("8bit" :> Repo("mlx-community", "whisper-small-mlx-8bit")))) @@
    (Name("medium") :> (("4bit" :> Repo("mlx-community", "whisper-medium-mlx-4bit")) @@
                        ("8bit" :> Repo("mlx-community", "whisper-medium-mlx-8bit")))) @@
    (Name("large-v3") :> (("4bit" :> Repo("mlx-community", "whisper-large-v3-mlx-4bit")) @@
                          ("8bit" :> Repo("mlx-community", "whisper-large-v3-mlx-8bit")))) @@
    (Name("distil-large-v3") :> (("4bit" :> Repo("mlx-community", "distil-whisper-large-v3-4bit")) @@
                                 ("8bit" :> Repo("mlx-community", "distil-whisper-large-v3-8bit"))))

----------------------------------------------------------------------------
(* LightningWhisperMLX.__init__                                            *)

\* Mutant of ResolveModelPath: the unquantized registry is consulted first.
ResolveModelPath_PlainFirst(model, quant) ==
    IF model \in DOMAIN MODEL_REPOS
    THEN [error |-> "none", model_path |-> MODEL_REPOS[model]]
    ELSE IF Truthy(quant) /\ model \in DOMAIN QUANT_REPOS /\ quant \in DOMAIN QUANT_REPOS[model]
    THEN [error |-> "none", model_path |-> QUANT_REPOS[model][quant]]
    ELSE IF ContainsSlash(model)
    THEN [error |-> "none", model_path |-> model]
    ELSE [error |-> "UnknownModel", model_path |-> NonePath]

\* Mutant of ResolveModelPath: an unknown name is passed through as a path.
ResolveModelPath_PassThrough(model, quant) ==
    IF Truthy(quant) /\ model \in DOMAIN QUANT_REPOS /\ quant \in DOMAIN QUANT_REPOS[model]
    THEN [error |-> "none", model_path |-> QUANT_REPOS[model][quant]]
    ELSE IF model \in DOMAIN MODEL_REPOS
    THEN [error |-> "none", model_path |-> MODEL_REPOS[model]]
    ELSE [error |-> "none", model_path |-> model]

\* The "Resolve model path" chain of __init__: the value assigned to
\* self.model_path, or the ValueError("Unknown model: ...").
ResolveModelPath(model, quant) ==
    IF Truthy(quant) /\ model \in DOMAIN QUANT_REPOS /\ quant \in DOMAIN QUANT_REPOS[model]
    THEN [error |-> "none", model_path |-> QUANT_REPOS[model][quant]]
    ELSE IF model \in DOMAIN MODEL_REPOS
    THEN [error |-> "none", model_path |-> MODEL_REPOS[model]]
    ELSE IF ContainsSlash(model)
    THEN [error |-> "none", model_path |-> model]
    ELSE [error |-> "UnknownModel", model_path |-> NonePath]

\* The object before any attribute is assigned.  An attribute is <<>> while
\* unset and <<v>> once assigned; model_path is NonePath while unset.
NoAttrs == [batch_size |-> <<>>, quant |-> <<>>, name |-> <<>>, model_path |-> NonePath]

\* Mutant of LightningWhisperMLX_init: batch_size is validated after the
\* model path has been resolved.
LightningWhisperMLX_init_LateCheck(model, batch_size, quant) ==
    LET r == ResolveModelPath(model, quant)
        attrs == [batch_size |-> <<batch_size>>, quant |-> <<quant>>, name |-> <<model>>,
                  model_path |-> r.model_path]
    IN  IF r.error # "none" THEN [error |-> r.error, attrs |-> attrs]
        ELSE IF batch_size < 1 THEN [error |-> "InvalidArgument", attrs |-> attrs]
        ELSE [error |-> "none", attrs |-> attrs]

\* __init__(self, model, batch_size, quant): the error raised ("none" when it
\* returns) and the attributes assigned by then.
LightningWhisperMLX_init(model, batch_size, quant) ==
    IF batch_size < 1
    THEN [error |-> "InvalidArgument", attrs |-> NoAttrs]
    ELSE LET r == ResolveModelPath(model, quant)
             attrs == [batch_size |-> <<batch_size>>, quant |-> <<quant>>, name |-> <<model>>,
                       model_path |-> r.model_path]
         IN  [error |-> r.error, attrs |-> attrs]

----------------------------------------------------------------------------
(* load_model                                                              *)

Dtypes == {"float32", "float16"}

\* isinstance(dtype, mx.Dtype)
IsDtype(d) == d \in Dtypes

WeightFiles == {"model.safetensors", "weights.safetensors", "weights.npz"}

\* What a load_model call finds outside the process: whether the source is
\* an existing local path, whether snapshot_download succeeds, the state of
\* config.json, and which weights files the model directory contains.
Envs == [exists : BOOLEAN, fetch_ok : BOOLEAN,
         config : {"ok", "missing", "malformed"},
         files : SUBSET WeightFiles]

NoneModel == [id |-> 0, source |-> NonePath, dtype |-> PyNone, weights |-> PyNone]

\* Mutant of WeightsFile: weights.safetensors is preferred to model.safetensors.
WeightsFile_Swapped(files) ==
    LET wf1 == "weights.safetensors"
        wf2 == IF wf1 \notin files THEN "model.safetensors" ELSE wf1
        wf3 == IF wf2 \notin files THEN "weights.npz" ELSE wf2
    IN  wf3

\* The file handed to mx.load: model.safetensors, else weights.safetensors,
\* else weights.npz (whether or not the last one exists).
WeightsFile(files) ==
    LET wf1 == "model.safetensors"
        wf2 == IF wf1 \notin files THEN "weights.safetensors" ELSE wf1
        wf3 == IF wf2 \notin files THEN "weights.npz" ELSE wf2
    IN  wf3

\* load_model(path_or_hf_repo, dtype) in environment env; id is the identity
\* of the Whisper object it builds.  The result carries the error raised
\* ("none" when a model is returned), the model, and how many times
\* snapshot_download was invoked.
load_model(path_or_hf_repo, dtype, env, id) ==
    LET failed(e, n) == [error |-> e, model |-> NoneModel, fetches |-> n]
        fetches == IF env.exists THEN 0 ELSE 1
        wf == WeightsFile(env.files)
    IN  IF path_or_hf_repo = NonePath \/ path_or_hf_repo = <<"">>
        THEN failed("ValueError", 0)
        ELSE IF ~IsDtype(dtype)
        THEN failed("TypeError", 0)
        ELSE IF ~env.exists /\ ~env.fetch_ok
        THEN failed("SourceUnavailable", fetches)
        ELSE IF env.config = "missing"
        THEN failed("FileNotFoundError", fetches)
        ELSE IF env.config = "malformed"
        THEN failed("ConfigError", fetches)
        ELSE IF wf \notin env.files
        THEN failed("WeightsNotFound", fetches)
        ELSE [error |-> "none",
              model |-> [id |-> id, source |-> path_or_hf_repo, dtype |-> dtype, weights |-> wf],
              fetches |-> fetches]

----------------------------------------------------------------------------
(* ModelHolder.get_model                                                   *)

\* Mutant of CacheMiss: every call reloads.
CacheMiss_Always(model, stored_path, model_path) == TRUE

\* Mutant of CacheMiss: the stored path is not compared.
CacheMiss_EmptyOnly(model, stored_path, model_path) == model = NoneModel

\* cls.model is None or model_path != cls.model_path
CacheMiss(model, stored_path, model_path) ==
    model = NoneModel \/ model_path # stored_path

\* Mutant of get_model: the slot is cleared before loading.
get_model_ClearFirst(model, stored_path, model_path, dtype, env, id) ==
    IF CacheMiss(model, stored_path, model_path)
    THEN LET r == load_model(model_path, dtype, env, id)
         IN  IF r.error # "none"
             THEN [error |-> r.error, result |-> NoneModel,
                   model |-> NoneModel, model_path |-> NonePath,
                   loads |-> 1, fetches |-> r.fetches]
             ELSE [error |-> "none", result |-> r.model,
                   model |-> r.model, model_path |-> model_path,
                   loads |-> 1, fetches |-> r.fetches]
    ELSE [error |-> "none", result |-> model,
          model |-> model, model_path |-> stored_path,
          loads |-> 0, fetches |-> 0]

\* Mutant of get_model: the cache is keyed by path and dtype.
get_model_DtypeKey(model, stored_path, model_path, dtype, env, id) ==
    IF CacheMiss(model, stored_path, model_path) \/ dtype # model.dtype
    THEN LET r == load_model(model_path, dtype, env, id)
         IN  IF r.error # "none"
             THEN [error |-> r.error, result |-> NoneModel,
                   model |-> model, model_path |-> stored_path,
                   loads |-> 1, fetches |-> r.fetches]
             ELSE [error |-> "none", result |-> r.model,
                   model |-> r.model, model_path |-> model_path,
                   loads |-> 1, fetches |-> r.fetches]
    ELSE [error |-> "none", result |-> model,
          model |-> model, model_path |-> stored_path,
          loads |-> 0, fetches |-> 0]

\* get_model(model_path, dtype) run to completion on the slot
\* (model, stored_path): the error raised or the model returned, the slot
\* afterwards, and how many times load_model and snapshot_download ran.
get_model(model, stored_path, model_path, dtype, env, id) ==
    IF CacheMiss(model, stored_path, model_path)
    THEN LET r == load_model(model_path, dtype, env, id)
         IN  IF r.error # "none"
             THEN [error |-> r.error, result |-> NoneModel,
                   model |-> model, model_path |-> stored_path,
                   loads |-> 1, fetches |-> r.fetches]
             ELSE [error |-> "none", result |-> r.model,
                   model |-> r.model, model_path |-> model_path,
                   loads |-> 1, fetches |-> r.fetches]
    ELSE [error |-> "none", result |-> model,
          model |-> model, model_path |-> stored_path,
          loads |-> 0, fetches |-> 0]

----------------------------------------------------------------------------
(* State machine                                                           *)

Threads == {1, 2}

SrcA == Repo("mlx-community", "whisper-tiny-mlx")
SrcB == Repo("mlx-community", "whisper-turbo")

\* model_path arguments of direct get_model calls: two repositories, the
\* empty string and None.
Sources == {SrcA, SrcB, <<"">>, NonePath}

\* dtype arguments: the two mx.Dtype values and a value that is no mx.Dtype.
DtypeArgs == Dtypes \cup {"not-a-dtype"}

\* model arguments of __init__: every registry name, two unknown names
\* without "/", the empty string, and two names containing "/".
UnknownNames == {Name("nosuch"), Name("tiny-mlx"), <<"">>}
PathNames == {Repo("org", "repo"), Repo("tiny", "")}
ModelArgs == DOMAIN MODEL_REPOS \cup UnknownNames \cup PathNames

QuantArgs == {PyNone, "", "4bit", "8bit", "16bit"}
BatchArgs == {-1, 0, 1, 12}

NoInitCall == [called |-> FALSE, model |-> Name("distil-large-v3"), batch_size |-> 12,
               quant |-> PyNone, error |-> "none"]

NoEnv == [exists |-> FALSE, fetch_ok |-> FALSE, config |-> "missing", files |-> {}]

NoCall == [called |-> FALSE, model_path |-> NonePath, dtype |-> PyNone, env |-> NoEnv,
           error |-> "none", result |-> NoneModel, loads |-> 0, fetches |-> 0]

NoFrame == [model_path |-> NonePath, dtype |-> PyNone, tmp |-> NoneModel,
            ret |-> NoneModel, error |-> "none"]

Init ==
    /\ self = NoAttrs
    /\ init_call = NoInitCall
    /\ cls_model = NoneModel
    /\ cls_model_path = NonePath
    /\ last = NoCall
    /\ next_id = 1
    /\ pc = [t \in Threads |-> "idle"]
    /\ frame = [t \in Threads |-> NoFrame]

\* One get_model(model_path, dtype) call run to completion by the only
\* thread using the holder.
GetModelCall(model_path, dtype, env) ==
    LET r == get_model(cls_model, cls_model_path, model_path, dtype, env, next_id)
        built == r.loads = 1 /\ r.error = "none"
    IN  /\ built => next_id <= MaxLoads
        /\ cls_model' = r.model
        /\ cls_model_path' = r.model_path
        /\ last' = [called |-> TRUE, model_path |-> model_path, dtype |-> dtype, env |-> env,
                    error |-> r.error, result |-> r.result,
                    loads |-> r.loads, fetches |-> r.fetches]
        /\ next_id' = IF built THEN next_id + 1 ELSE next_id

\* The environments of get_model calls: every outcome of load_model occurs,
\* with two different weights files.
CacheEnvs == {e \in Envs : e.config # "missing"
                           /\ e.files \in {{}, {"model.safetensors"}, {"weights.npz"}}}

GetModel ==
    /\ \E model_path \in Sources, dtype \in DtypeArgs, env \in CacheEnvs :
           GetModelCall(model_path, dtype, env)
    /\ UNCHANGED <<self, init_call, pc, frame>>

\* A direct load_model(path_or_hf_repo, dtype) call; the holder is not
\* involved.
LoadModel ==
    /\ \E path \in Sources, dtype \in DtypeArgs, env \in Envs :
           LET r == load_model(path, dtype, env, next_id)
           IN  /\ r.error = "none" => next_id <= MaxLoads
               /\ last' = [called |-> TRUE, model_path |-> path, dtype |-> dtype, env |-> env,
                           error |-> r.error, result |-> r.model,
                           loads |-> 1, fetches |-> r.fetches]
               /\ next_id' = IF r.error = "none" THEN next_id + 1 ELSE next_id
    /\ UNCHANGED <<self, init_call, cls_model, cls_model_path, pc, frame>>

\* LightningWhisperMLX(model, batch_size, quant) for a model drawn from names.
ConstructIn(names) ==
    /\ \E model \in names, batch_size \in BatchArgs, quant \in QuantArgs :
           LET r == LightningWhisperMLX_init(model, batch_size, quant)
           IN  /\ self' = r.attrs
               /\ init_call' = [called |-> TRUE, model |-> model, batch_size |-> batch_size,
                                quant |-> quant, error |-> r.error]
    /\ UNCHANGED <<cls_model, cls_model_path, last, next_id, pc, frame>>

Construct == ConstructIn(ModelArgs)

\* The names used where construction is combined with transcription.
FacadeNames == {Name("tiny"), Name("base"), Name("nosuch"), Repo("org", "repo")}

\* The environments used where construction is combined with transcription.
FacadeEnvs == {e \in Envs : e.exists = FALSE /\ e.config = "ok"
                            /\ e.files \in {{}, {"model.safetensors"}}}

ConstructFacade == ConstructIn(FacadeNames)

\* The transcription entry point obtains its model from the holder with the
\* path it is given.
transcribe_audio(path_or_hf_repo, dtype, env) ==
    GetModelCall(path_or_hf_repo, dtype, env)

\* LightningWhisperMLX.transcribe on a constructed object.
Transcribe ==
    /\ init_call.called /\ init_call.error = "none"
    /\ \E dtype \in Dtypes, env \in FacadeEnvs :
           transcribe_audio(self.model_path, dtype, env)
    /\ UNCHANGED <<self, init_call, pc, frame>>

----------------------------------------------------------------------------
(* get_model executed by two threads.  The interpreter may switch threads  *)
(* between any two attribute accesses of the method, and load_model blocks *)
(* on I/O, so each read and each store of the slot is a step of its own.   *)

ThreadSources == {SrcA, SrcB}

ThreadEnvs == {e \in Envs : e.exists = FALSE /\ e.config = "ok"
                            /\ e.files \in {{}, {"model.safetensors"}}}

\* Thread t enters get_model(model_path, dtype).
Call(t) ==
    /\ pc[t] = "idle"
    /\ \E model_path \in ThreadSources, dtype \in Dtypes :
           frame' = [frame EXCEPT ![t] = [NoFrame EXCEPT !.model_path = model_path,
                                                         !.dtype = dtype]]
    /\ pc' = [pc EXCEPT ![t] = "check_model"]
    /\ UNCHANGED <<self, init_call, cls_model, cls_model_path, last, next_id>>

\* cls.model is None
CheckModel(t) ==
    /\ pc[t] = "check_model"
    /\ pc' = [pc EXCEPT ![t] = IF cls_model = NoneModel THEN "load" ELSE "check_path"]
    /\ UNCHANGED <<self, init_call, cls_model, cls_model_path, last, next_id, frame>>

\* model_path != cls.model_path
CheckPath(t) ==
    /\ pc[t] = "check_path"
    /\ pc' = [pc EXCEPT ![t] = IF frame[t].model_path # cls_model_path THEN "load" ELSE "return"]
    /\ UNCHANGED <<self, init_call, cls_model, cls_model_path, last, next_id, frame>>

\* load_model(model_path, dtype=dtype), its value not yet stored
Load(t) ==
    /\ pc[t] = "load"
    /\ \E env \in ThreadEnvs :
           LET r == load_model(frame[t].model_path, frame[t].dtype, env, next_id)
           IN  /\ r.error = "none" => next_id <= MaxLoads
               /\ frame' = [frame EXCEPT ![t].tmp = r.model, ![t].error = r.error]
               /\ pc' = [pc EXCEPT ![t] = IF r.error = "none" THEN "store_model" ELSE "raised"]
               /\ next_id' = IF r.error = "none" THEN next_id + 1 ELSE next_id
    /\ UNCHANGED <<self, init_call, cls_model, cls_model_path, last>>

\* cls.model = <value of load_model>
StoreModel(t) ==
    /\ pc[t] = "store_model"
    /\ cls_model' = frame[t].tmp
    /\ pc' = [pc EXCEPT ![t] = "store_path"]
    /\ UNCHANGED <<self, init_call, cls_model_path, last, next_id, frame>>

\* cls.model_path = model_path
StorePath(t) ==
    /\ pc[t] = "store_path"
    /\ cls_model_path' = frame[t].model_path
    /\ pc' = [pc EXCEPT ![t] = "return"]
    /\ UNCHANGED <<self, init_call, cls_model, last, next_id, frame>>

\* return cls.model
Return(t) ==
    /\ pc[t] = "return"
    /\ frame' = [frame EXCEPT ![t].ret = cls_model]
    /\ pc' = [pc EXCEPT ![t] = "done"]
    /\ UNCHANGED <<self, init_call, cls_model, cls_model_path, last, next_id>>

\* The caller takes the result (or the exception) and may call again.
Again(t) ==
    /\ pc[t] \in {"done", "raised"}
    /\ pc' = [pc EXCEPT ![t] = "idle"]
    /\ frame' = [frame EXCEPT ![t] = NoFrame]
    /\ UNCHANGED <<self, init_call, cls_model, cls_model_path, last, next_id>>

NextThreads ==
    \E t \in Threads :
        \/ Call(t)
        \/ CheckModel(t)
        \/ CheckPath(t)
        \/ Load(t)
        \/ StoreModel(t)
        \/ StorePath(t)
        \/ Return(t)
        \/ Again(t)

SpecThreads == Init /\ [][NextThreads]_vars

Next == GetModel

Spec == Init /\ [][Next]_vars

NextLoad == LoadModel

SpecLoad == Init /\ [][NextLoad]_vars

NextInit == Construct

SpecInit == Init /\ [][NextInit]_vars

NextFacade == ConstructFacade \/ Transcribe

SpecFacade == Init /\ [][NextFacade]_vars

----------------------------------------------------------------------------
(* Properties                                                              *)

\* The last __init__ call passed the batch_size check.
Resolved == init_call.called /\ init_call.batch_size >= 1

\* C1: whenever the name has a registered quantized variant for the requested
\* quant, __init__ sets model_path to that quantized repository (for
\* "distil-large-v3" with "4bit": mlx-community/distil-whisper-large-v3-4bit);
\* when a quant is requested that the name does not support and the name has
\* an unquantized entry, model_path is the unquantized repository and no
\* error is raised.
C1_QuantResolution ==
    Resolved =>
        LET m == init_call.model
            q == init_call.quant
            supported == m \in DOMAIN QUANT_REPOS /\ q \in DOMAIN QUANT_REPOS[m]
        IN  /\ supported =>
                /\ init_call.error = "none"
                /\ self.model_path = QUANT_REPOS[m][q]
            /\ (m = Name("distil-large-v3") /\ q = "4bit") =>
                self.model_path = Repo("mlx-community", "distil-whisper-large-v3-4bit")
            /\ (Truthy(q) /\ ~supported /\ m \in DOMAIN MODEL_REPOS) =>
                /\ init_call.error = "none"
                /\ self.model_path = MODEL_REPOS[m]

C1_Witness ==
    /\ Resolved
    /\ init_call.model = Name("distil-large-v3")
    /\ init_call.quant = "4bit"
    /\ self.model_path = Repo("mlx-community", "distil-whisper-large-v3-4bit")

\* C2 as stated: resolving "small" with "4bit" gives the unquantized
\* mlx-community/whisper-small-mlx.
C2_SmallFallsBack ==
    (Resolved /\ init_call.model = Name("small") /\ init_call.quant = "4bit") =>
        self.model_path = Repo("mlx-community", "whisper-small-mlx")

\* C2 amended: resolving "small" with "4bit" gives the registered quantized
\* repository mlx-community/whisper-small-mlx-4bit and raises no error.
C2_SmallQuantized ==
    (Resolved /\ init_call.model = Name("small") /\ init_call.quant = "4bit") =>
        /\ init_call.error = "none"
        /\ self.model_path = Repo("mlx-community", "whisper-small-mlx-4bit")

C2_Witness ==
    /\ Resolved
    /\ init_call.model = Name("small")
    /\ init_call.quant = "4bit"
    /\ init_call.error = "none"
    /\ self.model_path # NonePath

\* C3: a name absent from the registry and without "/" fails with the
\* unknown-model error, whatever the quant, and no model_path is set; a name
\* absent from the registry is used unchanged as model_path only when it
\* contains "/".
C3_UnknownNames ==
    (Resolved /\ init_call.model \notin DOMAIN MODEL_REPOS) =>
        /\ ~ContainsSlash(init_call.model) =>
            /\ init_call.error = "UnknownModel"
            /\ self.model_path = NonePath
        /\ init_call.error = "none" =>
            /\ ContainsSlash(init_call.model)
            /\ self.model_path = init_call.model

C3_Witness ==
    /\ Resolved
    /\ init_call.model = Name("nosuch")
    /\ init_call.quant = "4bit"
    /\ init_call.error = "UnknownModel"
    /\ self.model_path = NonePath

\* C4: when a get_model call has returned a model, an immediately following
\* get_model call for the same source returns the same Whisper object and
\* runs neither load_model nor snapshot_download, and builds no object.
C4_SecondCallHits ==
    [][(last.called /\ last.error = "none" /\ last'.model_path = last.model_path) =>
           /\ last'.error = "none"
           /\ last'.result = last.result
           /\ last'.loads = 0
           /\ last'.fetches = 0
           /\ next_id' = next_id]_vars

C4_Witness ==
    /\ last.called
    /\ last.error = "none"
    /\ last.loads = 0
    /\ last.fetches = 0
    /\ ~last.env.exists
    /\ last.result = cls_model
    /\ last.result.source = last.model_path
    /\ last.result.id >= 1

\* C5: a thread that returns from get_model while the other thread is in a
\* call for a different source holds a model loaded from the source it
\* requested itself.
C5_NoMismatch ==
    \A t \in Threads :
        (/\ pc[t] = "done"
         /\ \A u \in Threads \ {t} :
                pc[u] # "idle" /\ frame[u].model_path # frame[t].model_path)
        => frame[t].ret.source = frame[t].model_path

\* C6: an __init__ call with batch_size < 1 raises the invalid-argument
\* error with no attribute assigned (no model_path resolved), and it leaves
\* the holder's slot, the load bookkeeping and the object count unchanged.
C6_BatchSizeFirst ==
    [][(init_call' # init_call /\ init_call'.batch_size < 1) =>
           /\ init_call'.error = "InvalidArgument"
           /\ self' = NoAttrs
           /\ UNCHANGED <<cls_model, cls_model_path, last, next_id>>]_vars

C6_Witness ==
    /\ init_call.called
    /\ init_call.batch_size = 0
    /\ init_call.model \in DOMAIN MODEL_REPOS
    /\ init_call.error = "InvalidArgument"
    /\ self.model_path = NonePath
    /\ cls_model # NoneModel

\* The first of the three weights files, in the documented order, that exists.
FirstExisting(files) ==
    IF "model.safetensors" \in files THEN "model.safetensors"
    ELSE IF "weights.safetensors" \in files THEN "weights.safetensors"
    ELSE "weights.npz"

\* C7: a load_model call that gets as far as the weights (valid arguments,
\* source available, configuration good) reads model.safetensors if it
\* exists, else weights.safetensors if it exists, else weights.npz if it
\* exists; when none of the three exists it raises the weights-not-found
\* error and returns no model.
C7_FirstWeightsFileWins ==
    (/\ last.called
     /\ last.model_path \notin {NonePath, <<"">>}
     /\ IsDtype(last.dtype)
     /\ (last.env.exists \/ last.env.fetch_ok)
     /\ last.env.config = "ok") =>
        IF last.env.files = {}
        THEN last.error = "WeightsNotFound" /\ last.result = NoneModel
        ELSE /\ last.error = "none"
             /\ last.result.weights = FirstExisting(last.env.files)
             /\ last.result.weights \in last.env.files

C7_Witness ==
    /\ last.called
    /\ last.error = "none"
    /\ last.env.files = {"model.safetensors", "weights.safetensors", "weights.npz"}
    /\ last.result.weights = "model.safetensors"

\* C8: a get_model call that raises returns no model and leaves model and
\* model_path of the holder as they were; the next call for the stored
\* source then returns the stored model without loading.
C8_FailureKeepsSlot ==
    [][/\ (last'.called /\ last'.error # "none") =>
              /\ last'.result = NoneModel
              /\ cls_model' = cls_model
              /\ cls_model_path' = cls_model_path
       /\ (/\ last.called /\ last.error # "none"
           /\ cls_model # NoneModel
           /\ last' # last
           /\ last'.model_path = cls_model_path) =>
              /\ last'.error = "none"
              /\ last'.result = cls_model
              /\ last'.loads = 0]_vars

C8_Witness ==
    /\ last.called
    /\ last.error = "WeightsNotFound"
    /\ last.loads = 1
    /\ cls_model # NoneModel
    /\ cls_model_path # last.model_path
    /\ cls_model.source = cls_model_path

\* The slot is empty, or holds a complete model with the source it was
\* loaded from.
SlotConsistent ==
    \/ cls_model = NoneModel /\ cls_model_path = NonePath
    \/ /\ cls_model # NoneModel
       /\ cls_model.id >= 1
       /\ cls_model.source = cls_model_path
       /\ IsDtype(cls_model.dtype)
       /\ cls_model.weights \in WeightFiles

\* C9: between get_model calls the slot is empty or holds a complete model
\* with exactly the source it was loaded from; a call runs load_model exactly
\* when the slot is empty or the requested source differs from the stored
\* one; every call that returns, returns the model in the slot, loaded from
\* the source the call requested.
C9_SingleSlot ==
    /\ [](SlotConsistent /\
          ((last.called /\ last.error = "none") =>
               /\ last.result = cls_model
               /\ last.result.source = last.model_path))
    /\ [][(last'.loads = 1) <=>
              (cls_model = NoneModel \/ last'.model_path # cls_model_path)]_vars

\* Three objects were built and the third is from SrcA: loads of SrcA, SrcB
\* and SrcA again.
C9_Witness ==
    /\ next_id = 4
    /\ cls_model.id = 3
    /\ cls_model.source = SrcA
    /\ last.model_path = SrcA
    /\ last.loads = 1

\* C10: after a get_model(p, d1) call that loaded and returned a model, an
\* immediately following get_model(p, d2) with d2 # d1 runs no load and
\* returns that same model, built with d1.
C10_DtypeNotInKey ==
    [][(/\ last.called /\ last.error = "none" /\ last.loads = 1
        /\ last'.model_path = last.model_path
        /\ last'.dtype # last.dtype) =>
           /\ last'.error = "none"
           /\ last'.loads = 0
           /\ last'.result = last.result
           /\ last'.result.dtype = last.dtype]_vars

C10_Witness ==
    /\ last.called
    /\ last.error = "none"
    /\ last.loads = 0
    /\ last.result = cls_model
    /\ last.dtype # last.result.dtype
    /\ last.model_path = cls_model_path

====
